---- MODULE Spec2Model ----
(***************************************************************************)
(* NexusFlow step-by-step workflow orchestrator (App.tsx, llmService.ts,   *)
(* constants.ts, types.ts) as a state machine.                             *)
(*                                                                         *)
(* The React state object `state` is one variable holding the whole        *)
(* WorkflowState record; every setState updater is an operator from a      *)
(* state record to a state record, and an action applies, in order, the    *)
(* updaters its handler queues.  A handler runs on the state of the last   *)
(* render (its closure), which is the current state: React commits the     *)
(* updates of one event before the next event is dispatched.  The provider *)
(* calls a handler has started and not yet awaited to completion are the   *)
(* bag `pending`.                                                          *)
(*                                                                         *)
(* A text is a sequence of atoms (strings standing for one character or    *)
(* for one indivisible fragment of a template); the empty text is <<>>.    *)
(* An optional field is <<>> (undefined) or <<v>>.                         *)
(***************************************************************************)
EXTENDS Bags, FiniteSets, Integers, Sequences, TLC

VARIABLES state, pending, apiKey, commands

vars == <<state, pending, apiKey, commands>>

---------------------------------------------------------------------------
(* Bounds of the model                                                     *)

\* executeStep invocations and confirmed resets explored in one session
MaxCommands == 4

\* addLog invocations explored in one session that does nothing else
MaxLogs == 503

\* feedback texts are explored up to this many characters past the limit
FeedbackOver == 2

\* the length of the long feedback text of the spec's example
LongFeedbackLength == 5000

---------------------------------------------------------------------------
(* Program constants                                                       *)

\* addLog keeps the last 500 entries
HistoryCap == 500
\* feedback is cut to 2000 characters
FeedbackLimit == 2000
\* GeminiProvider.timeout
GeminiTimeoutMs == 60000
\* MockExternalProvider shows the first 50 characters of the prompt
MockPromptHead == 50
\* simulated latency of a local / a cloud mock provider
MockLocalDelay == 500
MockCloudDelay == 1500

---------------------------------------------------------------------------
(* Optional values and texts                                               *)

Undefined == <<>>
Some(v) == <<v>>
IsDefined(opt) == opt # <<>>

\* JS truthiness of an optional string: defined and not ""
Truthy(opt) == opt # <<>> /\ opt[1] # <<>>

MinOf(a, b) == IF a <= b THEN a ELSE b
MaxOf(a, b) == IF a >= b THEN a ELSE b

IsWhitespace(a) == a \in {" ", "\n", "\t"}

\* String.prototype.trim
Trim(t) ==
    LET keep == {i \in 1..Len(t) : ~IsWhitespace(t[i])}
    IN  IF keep = {} THEN <<>>
        ELSE LET lo == CHOOSE i \in keep : \A j \in keep : i <= j
                 hi == CHOOSE i \in keep : \A j \in keep : i >= j
             IN  SubSeq(t, lo, hi)

\* t.slice(0, n) and t.substring(0, n) for n >= 0
SliceHead(t, n) == SubSeq(t, 1, MinOf(Len(t), n))

\* a.slice(-n) for n > 0
SliceLast(a, n) == SubSeq(a, MaxOf(1, Len(a) - n + 1), Len(a))

\* String.prototype.includes for a needle that is one atom
Includes(t, needle) == \E i \in 1..Len(t) : t[i] = needle

RECURSIVE Join(_, _)
\* Array.prototype.join
Join(parts, sep) ==
    IF parts = <<>> THEN <<>>
    ELSE IF Len(parts) = 1 THEN parts[1]
    ELSE parts[1] \o sep \o Join(Tail(parts), sep)

---------------------------------------------------------------------------
(* types.ts and constants.ts                                               *)

GEMINI_3 == "gemini-3-pro-preview"
CLAUDE_3 == "claude-3-opus"
LLAMA_3 == "llama-3-70b-instruct"
HF_TRANSFORMERS == "hf-transformers-latest"

ModelId == {GEMINI_3, CLAUDE_3, LLAMA_3, HF_TRANSFORMERS}

ExecutionMode == {"step", "batch", "all"}

PENDING == "PENDING"
RUNNING == "RUNNING"
PAUSED == "PAUSED"
COMPLETED == "COMPLETED"
ERROR == "ERROR"

StepStatus == {PENDING, RUNNING, PAUSED, COMPLETED, ERROR}

\* a WorkflowStep as constants.ts creates it: the optional fields absent
NewStep(id, title, prompt) ==
    [id |-> id, title |-> title, prompt |-> prompt, status |-> PENDING,
     result |-> Undefined, error |-> Undefined, feedback |-> Undefined,
     modelUsed |-> Undefined, latency |-> Undefined]

INITIAL_STEPS ==
    << NewStep("step-1", <<"Market Analysis">>,
               <<"Analyze the current trends in AI agent workflows as of late 2025.",
                 " Summarize key adoption drivers.">>),
       NewStep("step-2", <<"Architecture Draft">>,
               <<"Based on the analysis, draft a high-level system architecture",
                 " for a modular inference engine using Python.">>),
       NewStep("step-3", <<"Security Review">>,
               <<"Review the architecture for potential prompt injection vulnerabilities",
                 " and suggest mitigation strategies.">>) >>

SYSTEM_INSTRUCTION ==
    <<"You are an advanced AI workflow assistant.",
      " Execute the user's request precisely.", " Maintain technical accuracy.">>

\* state.steps[index] of the 0-based source; Undefined when out of range
StepAt(s, index) ==
    IF index \in 0..(Len(s.steps) - 1) THEN Some(s.steps[index + 1]) ELSE Undefined

---------------------------------------------------------------------------
(* services/llmService.ts                                                  *)

\* the outcome of a promise: fulfilled with a text, or rejected with an
\* Error carrying a message
Fulfilled(text) == [ok |-> TRUE, text |-> text]
Rejected(message) == [ok |-> FALSE, text |-> message]

\* what the remote API does with one request: it answers with a text,
\* throws an Error with a message, or does not answer within the timeout
UpstreamText(text) == [kind |-> "text", text |-> text]
UpstreamThrow(message) == [kind |-> "throw", text |-> message]
UpstreamHang == [kind |-> "hang", text |-> <<>>]

\* createTimeout: the Error the timer rejects with
TimeoutMessage(ms) == <<"Request ", "timeout", " after ", ToString(ms), "ms">>

\* withTimeout: Promise.race of the request and the timer
WithTimeout(ev, ms) ==
    CASE ev.kind = "text" -> Fulfilled(ev.text)
      [] ev.kind = "throw" -> Rejected(ev.text)
      [] OTHER -> Rejected(TimeoutMessage(ms))

MissingKeyMessage ==
    <<"Missing GEMINI_API_KEY environment variable. ",
      "Please set it in your .env.local file. ",
      "Get your key from: https://aistudio.google.com/app/apikey">>

\* the catch block of GeminiProvider.generate: the message it rethrows
GeminiClassify(message) ==
    IF Includes(message, "timeout")
    THEN <<"Gemini API request timed out after ",
           ToString(GeminiTimeoutMs \div 1000), " seconds. Please try again.">>
    ELSE IF Includes(message, "API key")
    THEN <<"Authentication failed: ">> \o message
    ELSE IF Includes(message, "quota") \/ Includes(message, "rate limit")
    THEN <<"API rate limit exceeded. Please wait a moment and try again.">>
    ELSE <<"Gemini API Error: ">> \o message

\* GeminiProvider.generate, were it to return whatever text the response
\* carries
GeminiGenerate_ReturnsAnyText(hasKey, ev) ==
    IF ~hasKey THEN Rejected(MissingKeyMessage)
    ELSE LET response == WithTimeout(ev, GeminiTimeoutMs)
         IN  IF response.ok THEN response ELSE Rejected(GeminiClassify(response.text))

\* GeminiProvider.generate
GeminiGenerate(hasKey, ev) ==
    IF ~hasKey THEN Rejected(MissingKeyMessage)
    ELSE LET response == WithTimeout(ev, GeminiTimeoutMs)
             tried == IF ~response.ok THEN response
                      ELSE IF response.text = <<>> \/ Len(Trim(response.text)) = 0
                      THEN Rejected(<<"Empty or invalid response from Gemini API">>)
                      ELSE Fulfilled(response.text)
         IN  IF tried.ok THEN tried ELSE Rejected(GeminiClassify(tried.text))

\* the providers registered, were the constructor to give the Hugging Face
\* provider the id of the Llama one: the later registration replaces the
\* earlier under that id and nothing is registered for HF_TRANSFORMERS
Providers_SharedId ==
    [id \in {GEMINI_3, CLAUDE_3, LLAMA_3} |->
        CASE id = GEMINI_3 ->
               [id |-> GEMINI_3, name |-> "Gemini 3.0 Pro", isLocal |-> FALSE, mock |-> FALSE]
          [] id = CLAUDE_3 ->
               [id |-> CLAUDE_3, name |-> "Claude 3 Opus", isLocal |-> FALSE, mock |-> TRUE]
          [] OTHER ->
               [id |-> LLAMA_3, name |-> "HF Transformers", isLocal |-> TRUE, mock |-> TRUE]]

\* the providers the LLMService constructor registers, by id
Providers ==
    [id \in ModelId |->
        CASE id = GEMINI_3 ->
               [id |-> GEMINI_3, name |-> "Gemini 3.0 Pro", isLocal |-> FALSE, mock |-> FALSE]
          [] id = CLAUDE_3 ->
               [id |-> CLAUDE_3, name |-> "Claude 3 Opus", isLocal |-> FALSE, mock |-> TRUE]
          [] id = LLAMA_3 ->
               [id |-> LLAMA_3, name |-> "Llama 3", isLocal |-> TRUE, mock |-> TRUE]
          [] OTHER ->
               [id |-> HF_TRANSFORMERS, name |-> "HF Transformers", isLocal |-> TRUE, mock |-> TRUE]]

\* MockExternalProvider.generate: the text it resolves with
MockGenerate(p, prompt, context) ==
    Fulfilled(
        <<IF p.isLocal THEN "[LOCAL SIMULATED]" ELSE "[CLOUD API SIMULATED]",
          " Response from ", p.name, "\n\nPrompt: \"">>
        \o SliceHead(prompt, MockPromptHead)
        \o (IF Len(prompt) > MockPromptHead THEN <<"...">> ELSE <<>>)
        \o <<"\"\n\nContext length: ", ToString(Len(context)), " characters",
             "\n\nThis is a placeholder response demonstrating that the modular LLM architecture successfully routed the request to the ",
             p.id, " provider.",
             " In a production environment, this would connect to the actual model endpoint and return real inference results.">>)

\* LLMService.getProvider, were it to fall back to the first registered
\* provider where the source throws
GetProvider_FallsBack(id) ==
    IF id \in DOMAIN Providers THEN Some(Providers[id]) ELSE Some(Providers[GEMINI_3])

\* LLMService.getProvider: the provider, or Undefined where the source throws
GetProvider(id) == IF id \in DOMAIN Providers THEN Some(Providers[id]) ELSE Undefined

\* LLMService.executeStep: the outcome of the promise it returns
ServiceExecuteStep(modelId, prompt, context, hasKey, ev) ==
    LET found == GetProvider(modelId)
    IN  IF ~IsDefined(found)
        THEN Rejected(<<"Model provider ", modelId, " not found.">>)
        ELSE IF found[1].mock THEN MockGenerate(found[1], prompt, context)
        ELSE GeminiGenerate(hasKey, ev)

\* Date.now() - startTime when the promise settles: nothing for a promise
\* rejected at once, the simulated delay of a mock provider, the timeout of
\* a request that is not answered, and a time below the timeout otherwise
ElapsedMs(modelId, hasKey, ev) ==
    LET found == GetProvider(modelId)
    IN  IF ~IsDefined(found) THEN 0
        ELSE IF found[1].mock
        THEN (IF found[1].isLocal THEN MockLocalDelay ELSE MockCloudDelay)
        ELSE IF ~hasKey THEN 0
        ELSE IF ev.kind = "hang" THEN GeminiTimeoutMs
        ELSE GeminiTimeoutMs \div 2

---------------------------------------------------------------------------
(* App.tsx: the setState updaters                                          *)

\* loadState without a usable snapshot: the default state
DefaultState ==
    [steps |-> INITIAL_STEPS, currentStepIndex |-> 0, selectedModel |-> GEMINI_3,
     executionMode |-> "step", isProcessing |-> FALSE, history |-> <<>>]

\* a LogEntry (id and timestamp are the wall clock and are left out)
LogEntry(message, level, details) ==
    [level |-> level, message |-> message, details |-> details]

\* addLog's updater, as it was before the history was bounded
AddLog_Unbounded(s, message, level, details) ==
    [s EXCEPT !.history = Append(s.history, LogEntry(message, level, details))]

\* addLog's updater
AddLog(s, message, level, details) ==
    [s EXCEPT !.history =
        SliceLast(Append(s.history, LogEntry(message, level, details)), HistoryCap)]

\* { ...step, ...updates }
Merge(step, updates) ==
    [f \in DOMAIN step |-> IF f \in DOMAIN updates THEN updates[f] ELSE step[f]]

\* updateStep's updater, were it to merge the updates into every step
UpdateStep_EveryStep(s, index, updates) ==
    [s EXCEPT !.steps = [i \in 1..Len(s.steps) |-> Merge(s.steps[i], updates)]]

\* updateStep's updater (index is always one of an existing step: every
\* caller reads the step at index first)
UpdateStep(s, index, updates) ==
    [s EXCEPT !.steps[index + 1] = Merge(s.steps[index + 1], updates)]

\* handleReset's updater, were it to keep the operator's feedback
ResetUpdater_KeepsFeedback(s) ==
    [s EXCEPT !.currentStepIndex = 0,
              !.steps = [i \in 1..Len(s.steps) |->
                            Merge(s.steps[i],
                                  [status |-> PENDING, result |-> Undefined,
                                   error |-> Undefined, latency |-> Undefined])],
              !.isProcessing = FALSE]

\* handleReset's updater, were it to leave the statuses as they are
ResetUpdater_KeepsStatus(s) ==
    [s EXCEPT !.currentStepIndex = 0,
              !.steps = [i \in 1..Len(s.steps) |->
                            Merge(s.steps[i],
                                  [result |-> Undefined, error |-> Undefined,
                                   latency |-> Undefined, feedback |-> Undefined])],
              !.isProcessing = FALSE]

\* handleReset's updater
ResetUpdater(s) ==
    [s EXCEPT !.currentStepIndex = 0,
              !.steps = [i \in 1..Len(s.steps) |->
                            Merge(s.steps[i],
                                  [status |-> PENDING, result |-> Undefined,
                                   error |-> Undefined, latency |-> Undefined,
                                   feedback |-> Undefined])],
              !.isProcessing = FALSE]

\* executeStep's first updater, were it to store the prompt it sends in
\* place of the step's template
MarkRunning_StoresFinalPrompt(s, index) ==
    LET step == StepAt(s, index)
        sent == IF Truthy(step[1].feedback)
                THEN step[1].prompt \o <<"\n\nIMPORTANT USER FEEDBACK: ">>
                                    \o step[1].feedback[1]
                ELSE step[1].prompt
    IN  IF ~IsDefined(step) THEN s
        ELSE [s EXCEPT !.steps[index + 1] =
                          Merge(step[1], [status |-> RUNNING,
                                          modelUsed |-> Some(s.selectedModel),
                                          prompt |-> sent]),
                       !.isProcessing = TRUE]

\* executeStep's first updater: mark the step RUNNING
MarkRunning(s, index) ==
    LET step == StepAt(s, index)
    IN  IF ~IsDefined(step) THEN s
        ELSE [s EXCEPT !.steps[index + 1] =
                          Merge(step[1], [status |-> RUNNING,
                                          modelUsed |-> Some(s.selectedModel)]),
                       !.isProcessing = TRUE]

\* executeStep's finally updater
ClearProcessing(s) == [s EXCEPT !.isProcessing = FALSE]

\* a decimal number inside a message
Num(n) == ToString(n)

---------------------------------------------------------------------------
(* App.tsx: executeStep                                                    *)

\* the block one completed step contributes to the context
ContextBlock(st) == <<"[Step: ">> \o st.title \o <<"]\nResult: ">> \o st.result[1]

\* the filter of previousContext, were it to test the result alone
FeedsForward_AnyResult(st) == Truthy(st.result)

\* the filter of previousContext
FeedsForward(st) == st.status = COMPLETED /\ Truthy(st.result)

\* previousContext, from the snapshot the handler closes over
PreviousContext(snapshot, index) ==
    LET kept == SelectSeq(SubSeq(snapshot.steps, 1, MinOf(index, Len(snapshot.steps))),
                          FeedsForward)
    IN  Join([i \in 1..Len(kept) |-> ContextBlock(kept[i])], <<"\n\n">>)

\* sanitizedFeedback, were it trimmed and not cut
SanitizeFeedback_NoLimit(feedback) == Trim(feedback)

\* sanitizedFeedback
SanitizeFeedback(feedback) == SliceHead(Trim(feedback), FeedbackLimit)

\* finalPrompt
FinalPrompt(step) ==
    IF Truthy(step.feedback)
    THEN step.prompt \o <<"\n\nIMPORTANT USER FEEDBACK: ">>
                     \o SanitizeFeedback(step.feedback[1])
    ELSE step.prompt

\* the provider call executeStep dispatches: what it passes to
\* llmService.executeStep, and the index its continuation writes back to
ProviderCall(snapshot, index) ==
    [index |-> index,
     modelId |-> snapshot.selectedModel,
     prompt |-> FinalPrompt(StepAt(snapshot, index)[1]),
     systemInstruction |-> SYSTEM_INSTRUCTION,
     context |-> PreviousContext(snapshot, index)]

\* executeStep up to its await: the state after the queued updaters
ExecuteStepState(s, index) ==
    LET step == StepAt(s, index)
        marked == MarkRunning(s, index)
        started == AddLog(marked,
                          <<"Starting Step ", Num(index + 1), ": ">> \o step[1].title,
                          "info", Undefined)
    IN  IF ~IsDefined(step) THEN marked
        ELSE IF Truthy(step[1].feedback)
        THEN AddLog(started, <<"Applied user feedback to prompt">>, "info", Undefined)
        ELSE started

\* executeStep up to its await: the provider calls it leaves in flight
ExecuteStepCalls(s, index) ==
    IF IsDefined(StepAt(s, index)) THEN SetToBag({ProviderCall(s, index)}) ELSE EmptyBag

\* the success path, were it to complete the step without review
SettleSuccess_AutoComplete(s, index, result, latency) ==
    AddLog(UpdateStep(s, index, [status |-> COMPLETED, result |-> Some(result),
                                 latency |-> Some(latency)]),
           <<"Step ", Num(index + 1), " execution successful. Latency: ",
             Num(latency), "ms">>,
           "success", Undefined)

\* the success path, were it to write back the feedback the run was
\* started with (none) along with the result
SettleSuccess_ClearsFeedback(s, index, result, latency) ==
    AddLog(UpdateStep(s, index, [status |-> PAUSED, result |-> Some(result),
                                 latency |-> Some(latency), feedback |-> Undefined]),
           <<"Step ", Num(index + 1), " execution successful. Latency: ",
             Num(latency), "ms">>,
           "success", Undefined)

\* executeStep after its await, on success
SettleSuccess(s, index, result, latency) ==
    AddLog(UpdateStep(s, index, [status |-> PAUSED, result |-> Some(result),
                                 latency |-> Some(latency)]),
           <<"Step ", Num(index + 1), " execution successful. Latency: ",
             Num(latency), "ms">>,
           "success", Undefined)

\* the catch block, were it to record the error in the step and not in
\* the log
SettleFailure_Silent(s, index, errorMessage) ==
    UpdateStep(s, index, [status |-> ERROR, error |-> Some(errorMessage)])

\* the catch block, were it to mark the step and leave the message to
\* the log
SettleFailure_StatusOnly(s, index, errorMessage) ==
    AddLog(UpdateStep(s, index, [status |-> ERROR]),
           <<"Error in Step ", Num(index + 1), ": ">> \o errorMessage,
           "error", Some(<<"Error: ">> \o errorMessage))

\* the catch block, were it to drop the result of the earlier run
SettleFailure_DropsResult(s, index, errorMessage) ==
    AddLog(UpdateStep(s, index, [status |-> ERROR, error |-> Some(errorMessage),
                                 result |-> Undefined]),
           <<"Error in Step ", Num(index + 1), ": ">> \o errorMessage,
           "error", Some(<<"Error: ">> \o errorMessage))

\* executeStep after its await, in the catch block
SettleFailure(s, index, errorMessage) ==
    AddLog(UpdateStep(s, index, [status |-> ERROR, error |-> Some(errorMessage)]),
           <<"Error in Step ", Num(index + 1), ": ">> \o errorMessage,
           "error", Some(<<"Error: ">> \o errorMessage))

\* executeStep after its await, were the flag cleared at the end of the try
\* block instead of in a finally block
Settle_NoFinally(s, call, outcome, latency) ==
    IF outcome.ok
    THEN ClearProcessing(SettleSuccess(s, call.index, outcome.text, latency))
    ELSE SettleFailure(s, call.index, outcome.text)

\* executeStep after its await, were a granularity other than 'step' to
\* approve a successful step and move on to the next one without review
Settle_AutoAdvances(s, call, outcome, latency) ==
    LET settled == ClearProcessing(IF outcome.ok
                                   THEN SettleSuccess(s, call.index, outcome.text, latency)
                                   ELSE SettleFailure(s, call.index, outcome.text))
    IN  IF outcome.ok /\ s.executionMode # "step" /\ call.index + 1 < Len(s.steps)
        THEN [UpdateStep(settled, call.index, [status |-> COMPLETED])
                 EXCEPT !.currentStepIndex = call.index + 1]
        ELSE settled

\* executeStep after its await, were a request that is not answered to
\* keep it waiting: nothing is written for it
Settle_KeepsWaiting(s, call, outcome, latency) ==
    IF ~outcome.ok /\ Includes(outcome.text, "Gemini API request timed out after ")
    THEN s
    ELSE ClearProcessing(IF outcome.ok
                         THEN SettleSuccess(s, call.index, outcome.text, latency)
                         ELSE SettleFailure(s, call.index, outcome.text))

\* executeStep after its await: the outcome reconciled, then the finally block
Settle(s, call, outcome, latency) ==
    ClearProcessing(IF outcome.ok
                    THEN SettleSuccess(s, call.index, outcome.text, latency)
                    ELSE SettleFailure(s, call.index, outcome.text))

---------------------------------------------------------------------------
(* App.tsx: the other handlers                                             *)

\* handleContinue, from the state its closure holds (the current one)
HandleContinueState(s) ==
    LET done == UpdateStep(s, s.currentStepIndex, [status |-> COMPLETED])
        nextIndex == s.currentStepIndex + 1
    IN  IF nextIndex < Len(s.steps)
        THEN AddLog([done EXCEPT !.currentStepIndex = nextIndex],
                    <<"Advanced to Step ", Num(nextIndex + 1), ". Ready to execute.">>,
                    "info", Undefined)
        ELSE AddLog(done, <<"Workflow successfully completed! All steps finished.">>,
                    "success", Undefined)

\* handleReset, were it to reset whatever window.confirm returns
HandleResetState_IgnoresAnswer(s, confirmed) ==
    AddLog(ResetUpdater(s), <<"Workflow reset initiated.">>, "warn", Undefined)

\* handleReset, were the reset to empty the log before its own entry
HandleResetState_ClearsLog(s, confirmed) ==
    IF confirmed
    THEN AddLog([ResetUpdater(s) EXCEPT !.history = <<>>],
                <<"Workflow reset initiated.">>, "warn", Undefined)
    ELSE s

\* handleReset, with the answer window.confirm returns
HandleResetState(s, confirmed) ==
    IF confirmed
    THEN AddLog(ResetUpdater(s), <<"Workflow reset initiated.">>, "warn", Undefined)
    ELSE s

\* the model selector's onClick, were it to relabel the steps that are
\* running with the newly selected model
SelectModelState_RelabelsRunning(s, id) ==
    [s EXCEPT !.selectedModel = id,
              !.steps = [i \in 1..Len(s.steps) |->
                            IF s.steps[i].status = RUNNING
                            THEN Merge(s.steps[i], [modelUsed |-> Some(id)])
                            ELSE s.steps[i]]]

\* the model selector's onClick, were it to discard the outcome of the
\* steps run with another model
SelectModelState_DiscardsOutcomes(s, id) ==
    [s EXCEPT !.selectedModel = id,
              !.steps = [i \in 1..Len(s.steps) |->
                            IF IsDefined(s.steps[i].modelUsed)
                               /\ s.steps[i].modelUsed # Some(id)
                               /\ s.steps[i].status \in {PAUSED, ERROR}
                            THEN Merge(s.steps[i],
                                       [status |-> PENDING, result |-> Undefined,
                                        error |-> Undefined, modelUsed |-> Undefined])
                            ELSE s.steps[i]]]

\* the model selector's onClick
SelectModelState(s, id) == [s EXCEPT !.selectedModel = id]

\* the granularity selector's onClick
SelectModeState(s, mode) == [s EXCEPT !.executionMode = mode]

\* the feedback textarea's onChange, were it to write what the operator
\* types into the template of the step
EditFeedbackState_RewritesPrompt(s, index, value) ==
    UpdateStep(s, index, [feedback |-> Some(value),
                          prompt |-> s.steps[index + 1].prompt \o value])

\* the feedback textarea's onChange
EditFeedbackState(s, index, value) == UpdateStep(s, index, [feedback |-> Some(value)])

---------------------------------------------------------------------------
(* App.tsx: what the rendered page lets the operator do                    *)

\* isActive holds for the step at currentStepIndex, when there is one
HasActiveStep(s) == IsDefined(StepAt(s, s.currentStepIndex))

ActiveStatus(s) == s.steps[s.currentStepIndex + 1].status

\* the action bar shows the review panel (feedback, Iterate / Re-run,
\* Approve & Continue)
ShowsReview(s) == HasActiveStep(s) /\ ActiveStatus(s) = PAUSED

\* the action bar shows the Start Step button, and it is not disabled
StartEnabled(s) ==
    /\ HasActiveStep(s)
    /\ ActiveStatus(s) \notin {RUNNING, PAUSED}
    /\ ~s.isProcessing

---------------------------------------------------------------------------
(* The environment                                                         *)

\* what the remote API does with a request: it answers, it refuses the
\* key, or it never answers
UpstreamEvents ==
    { UpstreamText(<<"R0">>),
      UpstreamThrow(<<"API key", " not valid. Please pass a valid API key.">>),
      UpstreamHang }

\* what the operator types into the feedback textarea
FeedbackInputs == { <<" ", "Be", " ", "brief", "\n">> }

\* the models the operator picks among: the remote one and a simulated one
ModelChoices == {GEMINI_3, LLAMA_3}

\* the granularities the operator picks among
ModeChoices == {"step", "all"}

---------------------------------------------------------------------------
(* The state machine                                                       *)

Init ==
    /\ state = DefaultState
    /\ pending = EmptyBag
    /\ apiKey \in BOOLEAN
    /\ commands = 0

\* executeStep(index), up to its await
ExecuteStep(index) ==
    /\ commands < MaxCommands
    /\ state' = ExecuteStepState(state, index)
    /\ pending' = pending (+) ExecuteStepCalls(state, index)
    /\ commands' = commands + 1
    /\ UNCHANGED apiKey

\* the operator clicks Start Step: handleRunClick
HandleRunClick ==
    /\ StartEnabled(state)
    /\ IF state.currentStepIndex >= Len(state.steps)
       THEN /\ state' = AddLog(state,
                  <<"All steps have been completed. Reset workflow to start over.">>,
                  "warn", Undefined)
            /\ UNCHANGED <<pending, apiKey, commands>>
       ELSE ExecuteStep(state.currentStepIndex)

\* the operator clicks Iterate / Re-run
HandleRerunClick ==
    /\ ShowsReview(state)
    /\ ExecuteStep(state.currentStepIndex)

\* the outcome of a provider call in flight, given what the remote API does
OutcomeOf(call, ev) ==
    ServiceExecuteStep(call.modelId, call.prompt, call.context, apiKey, ev)

\* one provider call in flight settles and executeStep resumes after its await
SettleCallWith(call, ev) ==
    /\ BagIn(call, pending)
    /\ state' = Settle(state, call, OutcomeOf(call, ev),
                       ElapsedMs(call.modelId, apiKey, ev))
    /\ pending' = pending (-) SetToBag({call})
    /\ UNCHANGED <<apiKey, commands>>

\* a provider call in flight settles
SettleCall ==
    \E call \in BagToSet(pending), ev \in UpstreamEvents : SettleCallWith(call, ev)

\* the operator clicks Approve & Continue
HandleContinue ==
    /\ ShowsReview(state)
    /\ state' = HandleContinueState(state)
    /\ UNCHANGED <<pending, apiKey, commands>>

\* the operator clicks Reset Workflow State and answers the confirmation
HandleReset ==
    \E confirmed \in BOOLEAN :
        /\ confirmed => commands < MaxCommands
        /\ state' = HandleResetState(state, confirmed)
        /\ commands' = IF confirmed THEN commands + 1 ELSE commands
        /\ UNCHANGED <<pending, apiKey>>

\* the operator picks a model
SelectModel ==
    \E id \in ModelChoices :
        /\ state' = SelectModelState(state, id)
        /\ UNCHANGED <<pending, apiKey, commands>>

\* the operator picks a granularity
SelectMode ==
    \E mode \in ModeChoices :
        /\ state' = SelectModeState(state, mode)
        /\ UNCHANGED <<pending, apiKey, commands>>

\* the operator edits the feedback of the step under review
EditFeedback ==
    \E value \in FeedbackInputs :
        /\ ShowsReview(state)
        /\ state' = EditFeedbackState(state, state.currentStepIndex, value)
        /\ UNCHANGED <<pending, apiKey, commands>>

Next ==
    \/ HandleRunClick
    \/ HandleRerunClick
    \/ SettleCall
    \/ HandleContinue
    \/ HandleReset
    \/ SelectModel
    \/ SelectMode
    \/ EditFeedback

Spec == Init /\ [][Next]_vars

\* executeStep called with any index, whatever the page shows: the index
\* of a step, or the first index past the steps
InvokeExecuteStep ==
    \E index \in 0..Len(state.steps) : ExecuteStep(index)

NextEngine == InvokeExecuteStep \/ SettleCall

\* executeStep under an arbitrary caller, and the provider's completions
SpecEngine == Init /\ [][NextEngine]_vars

\* handleContinue called whatever the page shows
InvokeHandleContinue ==
    /\ commands < MaxCommands
    /\ state' = HandleContinueState(state)
    /\ commands' = commands + 1
    /\ UNCHANGED <<pending, apiKey>>

NextApprove == HandleRunClick \/ SettleCall \/ InvokeHandleContinue

\* handleContinue under an arbitrary caller, beside the operator's runs
\* and the provider's completions
SpecApprove == Init /\ [][NextApprove]_vars

\* the operator runs, re-runs, approves and resets with the default model
NextFair ==
    \/ HandleRunClick
    \/ HandleRerunClick
    \/ SettleCall
    \/ HandleContinue
    \/ HandleReset

\* the event loop delivers every settled promise and every timer
FairSpec == Init /\ [][NextFair]_vars /\ WF_vars(SettleCall)

---------------------------------------------------------------------------
\* addLog called with a message that tells its entry from every other one
InvokeAddLog ==
    /\ commands < MaxLogs
    /\ state' = AddLog(state, <<"Log ", Num(commands)>>, "info", Undefined)
    /\ commands' = commands + 1
    /\ UNCHANGED <<pending, apiKey>>

NextLog == InvokeAddLog

\* addLog called over and over from the default state
SpecLog == Init /\ [][NextLog]_vars

\* a text of n characters with blanks at the given positions
Chars(n, blanks) == [k \in 1..n |-> IF k \in blanks THEN " " ELSE "a"]

\* what the operator pastes into the feedback textarea (it has no
\* maxLength): texts around the limit and a long one, without blanks, with
\* a blank at either end, with a blank where the cut falls, and all blank
LongFeedbacks ==
    UNION { { Chars(n, {}), Chars(n, {1}), Chars(n, {n}),
              Chars(n, {FeedbackLimit}), Chars(n, {1, FeedbackLimit + 1}),
              Chars(n, 1..n) } :
            n \in ((FeedbackLimit - 1)..(FeedbackLimit + FeedbackOver))
                      \cup {LongFeedbackLength} }

\* the state in which the operator has selected a simulated model (it
\* needs no API key), run the first step, got its answer, and pasted a
\* feedback text into the review panel
ReviewState(value) ==
    LET chosen == SelectModelState(DefaultState, LLAMA_3)
        call == ProviderCall(chosen, 0)
        outcome == ServiceExecuteStep(call.modelId, call.prompt, call.context,
                                      FALSE, UpstreamHang)
        settled == Settle(ExecuteStepState(chosen, 0), call, outcome,
                          ElapsedMs(call.modelId, FALSE, UpstreamHang))
    IN  EditFeedbackState(settled, 0, value)

InitFeedback ==
    /\ \E value \in LongFeedbacks : state = ReviewState(value)
    /\ pending = EmptyBag
    /\ apiKey = FALSE
    /\ commands = 1

NextFeedback == HandleRerunClick \/ SettleCall

\* the operator re-runs the step under review with the pasted feedback
SpecFeedback == InitFeedback /\ [][NextFeedback]_vars

\* a model identifier no provider is registered for
UnknownModel == "unknown-model"

\* the state loadState returns for a persisted snapshot whose selectedModel
\* is not a ModelId (it accepts any truthy selectedModel)
InitUnknownModel ==
    /\ state = [DefaultState EXCEPT !.selectedModel = UnknownModel]
    /\ pending = EmptyBag
    /\ apiKey \in BOOLEAN
    /\ commands = 0

\* the operator runs and resets (no run of that session succeeds, so
\* nothing comes up for review)
NextUnknownModel == HandleRunClick \/ SettleCall \/ HandleReset

\* a session that starts from that snapshot; the event loop delivers every
\* settled promise
SpecUnknownModel ==
    InitUnknownModel /\ [][NextUnknownModel]_vars /\ WF_vars(SettleCall)

\* the fields of a WorkflowStep that may be absent
OptionalStepFields == {"result", "error", "feedback", "modelUsed", "latency"}

\* JSON.stringify of one step: a property whose value is undefined is left
\* out of the object
StepToJson(step) ==
    [f \in {g \in DOMAIN step : g \notin OptionalStepFields \/ IsDefined(step[g])} |->
        IF f \in OptionalStepFields THEN step[f][1] ELSE step[f]]

\* a step object of a parsed snapshot, as the program reads it: a property
\* that is not there reads as undefined
StepFromJson(obj) ==
    [f \in {"id", "title", "prompt", "status"} \cup OptionalStepFields |->
        IF f \notin DOMAIN obj THEN Undefined
        ELSE IF f \in OptionalStepFields THEN Some(obj[f]) ELSE obj[f]]

\* what localStorage holds under nexus_flow_state_v1: nothing, a string
\* that is not JSON, or the JSON of an object; of the object, whether it
\* has a steps property and whether that is an array, its selectedModel
\* ("" when it has none), and its other properties
NoSnapshot == [kind |-> "none"]
CorruptSnapshot == [kind |-> "corrupt"]
JsonSnapshot(hasSteps, isArray, steps, selectedModel, rest) ==
    [kind |-> "json", hasSteps |-> hasSteps, isArray |-> isArray, steps |-> steps,
     selectedModel |-> selectedModel, rest |-> rest]

\* the persistence effect: JSON.stringify(state) stored by setItem
SaveState(s) ==
    JsonSnapshot(TRUE, TRUE, [i \in 1..Len(s.steps) |-> StepToJson(s.steps[i])],
                 s.selectedModel,
                 [currentStepIndex |-> s.currentStepIndex,
                  executionMode |-> s.executionMode,
                  isProcessing |-> s.isProcessing,
                  history |-> s.history])

\* loadState, were it to restart a restored workflow at its first step
LoadState_RestartsAtFirst(saved) ==
    IF saved.kind = "json" /\ saved.hasSteps /\ saved.isArray /\ saved.selectedModel # ""
    THEN [steps |-> [i \in 1..Len(saved.steps) |-> StepFromJson(saved.steps[i])],
          currentStepIndex |-> 0,
          selectedModel |-> saved.selectedModel,
          executionMode |-> saved.rest.executionMode,
          isProcessing |-> saved.rest.isProcessing,
          history |-> saved.rest.history]
    ELSE DefaultState

\* loadState: the parsed object when it has a truthy steps that is an
\* array and a truthy selectedModel, the default state otherwise (nothing
\* stored, JSON.parse throws, or the test fails)
LoadState(saved) ==
    IF saved.kind = "json" /\ saved.hasSteps /\ saved.isArray /\ saved.selectedModel # ""
    THEN [steps |-> [i \in 1..Len(saved.steps) |-> StepFromJson(saved.steps[i])],
          currentStepIndex |-> saved.rest.currentStepIndex,
          selectedModel |-> saved.selectedModel,
          executionMode |-> saved.rest.executionMode,
          isProcessing |-> saved.rest.isProcessing,
          history |-> saved.rest.history]
    ELSE DefaultState

\* a workflow saved with its first step approved and its second under review
ProgressState ==
    [DefaultState EXCEPT
        !.steps[1] = Merge(@, [status |-> COMPLETED, result |-> Some(<<"R0">>),
                               modelUsed |-> Some(GEMINI_3),
                               latency |-> Some(GeminiTimeoutMs \div 2)]),
        !.steps[2] = Merge(@, [status |-> PAUSED, result |-> Some(<<"R0">>),
                               modelUsed |-> Some(GEMINI_3),
                               latency |-> Some(GeminiTimeoutMs \div 2)]),
        !.currentStepIndex = 1]

\* the stored values a session may find: none, a corrupt one, and objects
\* written by an earlier session or by hand, with steps present as an
\* array, present as something else, or absent, and with a selectedModel
\* that is absent, registered, or not a ModelId
Snapshots ==
    {NoSnapshot, CorruptSnapshot}
    \cup { [SaveState(s) EXCEPT !.hasSteps = shape[1], !.isArray = shape[2],
                                !.selectedModel = model] :
           s \in {DefaultState, ProgressState},
           shape \in {<<TRUE, TRUE>>, <<TRUE, FALSE>>, <<FALSE, FALSE>>},
           model \in {"", GEMINI_3, LLAMA_3, UnknownModel} }

\* useState(loadState), for each of the stored values
InitLoad ==
    /\ \E saved \in Snapshots : state = LoadState(saved)
    /\ pending = EmptyBag
    /\ apiKey \in BOOLEAN
    /\ commands = 0

\* a session that starts from whatever localStorage holds
SpecLoad == InitLoad /\ [][NextFair]_vars

\* the operator picks any of the three granularities
SelectAnyMode ==
    \E mode \in ExecutionMode :
        /\ state' = SelectModeState(state, mode)
        /\ UNCHANGED <<pending, apiKey, commands>>

NextModes ==
    \/ HandleRunClick
    \/ HandleRerunClick
    \/ SettleCall
    \/ HandleContinue
    \/ HandleReset
    \/ SelectAnyMode

\* the operator runs, re-runs, approves and resets under any granularity
SpecModes == Init /\ [][NextModes]_vars

\* what the remote API does with a request, the payloads told apart: a
\* text, no text, a text of whitespace, an Error without and with a
\* message, and no answer
PayloadEvents ==
    { UpstreamText(<<"R0">>),
      UpstreamText(<<>>),
      UpstreamText(<<" ", "\n", "\t">>),
      UpstreamThrow(<<>>),
      UpstreamThrow(<<"fetch failed">>),
      UpstreamHang }

\* a provider call in flight settles on one of the payloads
SettlePayload ==
    \E call \in BagToSet(pending), ev \in PayloadEvents : SettleCallWith(call, ev)

NextPayload ==
    \/ HandleRunClick
    \/ HandleRerunClick
    \/ SettlePayload
    \/ HandleContinue
    \/ HandleReset
    \/ SelectModel

\* the workflow run against a remote API that answers with any payload
SpecPayload == Init /\ [][NextPayload]_vars

\* the ways a request to the remote API fails, each with its cause: the
\* API does not answer, refuses the key, refuses the credentials, reports
\* an exhausted quota, reports the rate limit of the key, or breaks
Failures ==
    { [cause |-> "timeout", event |-> UpstreamHang],
      [cause |-> "authentication",
       event |-> UpstreamThrow(<<"API key", " not valid. Please pass a valid API key.">>)],
      [cause |-> "authentication",
       event |-> UpstreamThrow(<<"Request had invalid authentication credentials.">>)],
      [cause |-> "rate-limit",
       event |-> UpstreamThrow(<<"Resource has been exhausted (e.g. check ", "quota", ").">>)],
      [cause |-> "rate-limit",
       event |-> UpstreamThrow(<<"rate limit", " exceeded for this ", "API key">>)],
      [cause |-> "generic", event |-> UpstreamThrow(<<"Internal error encountered.">>)] }

\* what the remote API does with a request: it answers or fails
RemoteEvents == {UpstreamText(<<"R0">>)} \cup {f.event : f \in Failures}

\* the class of a message of the catch block of GeminiProvider.generate
ReportedClass(message) ==
    IF message = <<>> THEN "none"
    ELSE CASE message[1] = "Gemini API request timed out after " -> "timeout"
           [] message[1] = "Authentication failed: " -> "authentication"
           [] message[1] = "API rate limit exceeded. Please wait a moment and try again."
                -> "rate-limit"
           [] message[1] = "Gemini API Error: " -> "generic"
           [] OTHER -> "none"

\* a provider call in flight settles on an answer or a failure of the API
SettleRemote ==
    \E call \in BagToSet(pending), ev \in RemoteEvents : SettleCallWith(call, ev)

NextRemote ==
    \/ HandleRunClick
    \/ HandleRerunClick
    \/ SettleRemote
    \/ HandleContinue

\* the workflow run with the remote provider against an API that fails in
\* each of the ways
SpecRemote == Init /\ [][NextRemote]_vars

\* the operator reloads the page: the new session starts from the
\* snapshot the persistence effect stored for the current state, and the
\* calls of the old session are gone with their continuations
Reload ==
    /\ state' = LoadState(SaveState(state))
    /\ pending' = EmptyBag
    /\ UNCHANGED <<apiKey, commands>>

NextReload ==
    \/ HandleRunClick
    \/ HandleRerunClick
    \/ SettleCall
    \/ HandleContinue
    \/ HandleReset
    \/ Reload

\* sessions of the operator, each restored from the snapshot of the one
\* before
SpecReload == Init /\ [][NextReload]_vars

\* the operator picks any of the models the selector lists
SelectAnyModel ==
    \E id \in ModelId :
        /\ state' = SelectModelState(state, id)
        /\ UNCHANGED <<pending, apiKey, commands>>

NextModels ==
    \/ HandleRunClick
    \/ HandleRerunClick
    \/ SettleCall
    \/ HandleContinue
    \/ SelectAnyModel

\* the operator runs, re-runs and approves steps with any of the models
SpecModels == Init /\ [][NextModels]_vars

\* a log of n entries told apart by their messages, as earlier sessions
\* leave it in the persisted snapshot
NumberedLog(n) ==
    [k \in 1..n |-> LogEntry(<<"Log ", Num(k)>>, "info", Undefined)]

\* the state loadState returns for a persisted snapshot: a workflow that
\* has been reset, with a log two entries short of the cap
InitRestored ==
    /\ state = [DefaultState EXCEPT !.history = NumberedLog(HistoryCap - 2)]
    /\ pending = EmptyBag
    /\ apiKey \in BOOLEAN
    /\ commands = 0

\* a session that starts from the persisted snapshot
SpecRestored == InitRestored /\ [][NextFair]_vars

(* Properties                                                              *)

NumSteps == Len(INITIAL_STEPS)

StepIndices == 0..(NumSteps - 1)

\* the steps whose status is RUNNING
RunningSteps == {i \in StepIndices : state.steps[i + 1].status = RUNNING}

\* the number of provider calls in flight
InFlight == BagCardinality(pending)

\* a provider call is dispatched by this step
Dispatches(call) == CopiesIn(call, pending') > CopiesIn(call, pending)

\* C1: an executeStep invocation made while isProcessing is true, for any
\* step index, changes nothing of the workflow state and starts no
\* provider call
C1_BusyRunRejected ==
    [][\A index \in 0..NumSteps :
          (state.isProcessing /\ ExecuteStep(index))
              => (state' = state /\ pending' = pending)]_vars

\* through the rendered buttons alone executeStep is not reached while
\* isProcessing is true: the current step is then RUNNING, and neither
\* Start Step nor Iterate / Re-run is shown
BusyHidesRunButtons ==
    state.isProcessing => (~StartEnabled(state) /\ ~ShowsReview(state))

\* C2: at most one step has status RUNNING
C2_AtMostOneRunning == Cardinality(RunningSteps) <= 1

\* C2: a step is RUNNING while the call of an earlier run is still in
\* flight beside its own
C2_Witness == Cardinality(RunningSteps) = 1 /\ InFlight >= 2

\* C3: at most one provider call is in flight
C3_AtMostOneInFlight == InFlight <= 1

\* C4: isProcessing is true exactly while a provider call is in flight
C4_ProcessingIffInFlight == state.isProcessing <=> (InFlight > 0)

\* the step a call writes back to, before and after the current step
Target(call) == state.steps[call.index + 1]
TargetAfter(call) == state'.steps[call.index + 1]

\* the current step settles this call with a fulfilled promise
SettlesOk(call, ev) == SettleCallWith(call, ev) /\ OutcomeOf(call, ev).ok

\* the current step settles this call with a rejected promise
SettlesFailed(call, ev) == SettleCallWith(call, ev) /\ ~OutcomeOf(call, ev).ok

C6_SuccessPausesOnly ==
    [][/\ \A call \in BagToSet(pending), ev \in UpstreamEvents :
             SettlesOk(call, ev) =>
                 /\ TargetAfter(call).status = PAUSED
                 /\ TargetAfter(call).result = Some(OutcomeOf(call, ev).text)
       /\ \A i \in StepIndices :
             (state.steps[i + 1].status # COMPLETED
                  /\ state'.steps[i + 1].status = COMPLETED)
                 => (HandleContinue /\ i = state.currentStepIndex)]_vars

\* C6: one step has been approved and the next one waits for review with
\* the provider's text
C6_Witness ==
    /\ state.steps[1].status = COMPLETED
    /\ state.steps[2].status = PAUSED
    /\ state.steps[2].result = Some(<<"R0">>)

\* C7: a step that is PAUSED or COMPLETED carries no error
C7_NoErrorAfterSuccess ==
    \A i \in StepIndices :
        state.steps[i + 1].status \in {PAUSED, COMPLETED}
            => ~IsDefined(state.steps[i + 1].error)

\* C8: a failed provider call leaves its step in ERROR with the failure's
\* message, keeps the result the step had, and leaves isProcessing false
C8_FailureRecorded ==
    [][\A call \in BagToSet(pending), ev \in UpstreamEvents :
          SettlesFailed(call, ev) =>
              /\ TargetAfter(call).status = ERROR
              /\ TargetAfter(call).error = Some(OutcomeOf(call, ev).text)
              /\ TargetAfter(call).result = Target(call).result
              /\ ~state'.isProcessing]_vars

\* C8: a step that once succeeded has failed on its re-run: it shows the
\* error next to the earlier result
C8_Witness ==
    \E i \in StepIndices :
        /\ state.steps[i + 1].status = ERROR
        /\ Truthy(state.steps[i + 1].error)
        /\ Truthy(state.steps[i + 1].result)
        /\ ~state.isProcessing

\* C9: a failed provider call is reconciled by executeStep, and changes
\* only the status and error of its step, isProcessing, and the log, which
\* gains entries at its end
C9_FailureFrame ==
    [][\A call \in BagToSet(pending), ev \in UpstreamEvents :
          SettlesFailed(call, ev) =>
              /\ state'.currentStepIndex = state.currentStepIndex
              /\ state'.selectedModel = state.selectedModel
              /\ state'.executionMode = state.executionMode
              /\ Len(state'.steps) = Len(state.steps)
              /\ \A i \in StepIndices :
                    i # call.index => state'.steps[i + 1] = state.steps[i + 1]
              /\ \A f \in DOMAIN Target(call) \ {"status", "error"} :
                    TargetAfter(call)[f] = Target(call)[f]
              /\ Len(state'.history) > Len(state.history)
              /\ SubSeq(state'.history, 1, Len(state.history)) = state.history]_vars

\* C9: a run of the second step has failed after the operator changed the
\* model and the granularity and approved the first step
C9_Witness ==
    /\ state.steps[1].status = COMPLETED
    /\ state.steps[2].status = ERROR
    /\ state.currentStepIndex = 1
    /\ state.selectedModel # DefaultState.selectedModel
    /\ state.executionMode # DefaultState.executionMode

\* the context the claim describes: one block per earlier step that is
\* COMPLETED, in step order, a blank line between two blocks
ApprovedBlocks(s, index) ==
    LET RECURSIVE Upto(_)
        Upto(n) ==
            IF n = 0 THEN <<>>
            ELSE LET st == s.steps[n]
                     block == <<"[Step: ">> \o st.title \o <<"]\nResult: ">>
                                 \o st.result[1]
                 IN  IF st.status # COMPLETED THEN Upto(n - 1)
                     ELSE IF Upto(n - 1) = <<>> THEN block
                     ELSE Upto(n - 1) \o <<"\n\n">> \o block
    IN  Upto(index)

\* C10: the context of a dispatched call holds exactly the blocks of the
\* earlier steps that are COMPLETED when executeStep is invoked
C10_ContextIsApprovedResults ==
    [][\A index \in StepIndices :
          ExecuteStep(index) =>
              \A call \in BagToSet(pending') :
                  Dispatches(call) =>
                      /\ call.index = index
                      /\ call.context = ApprovedBlocks(state, index)]_vars

\* C10: the call of the third step is in flight with the blocks of the
\* two approved steps as context
C10_Witness ==
    \E call \in BagToSet(pending) :
        /\ call.index = 2
        /\ call.context =
              <<"[Step: ", "Market Analysis", "]\nResult: ", "R0", "\n\n",
                "[Step: ", "Architecture Draft", "]\nResult: ", "R0">>

\* C11: executeStep marks its step RUNNING with the model selected when it
\* is invoked as modelUsed and dispatches its provider call to that same
\* model; selecting another model afterwards changes no step and no call
\* in flight, and modelUsed changes in no step but an executeStep one
C11_ModelUsedIsDispatchedModel ==
    [][/\ \A index \in StepIndices :
             ExecuteStep(index) =>
                 /\ state'.steps[index + 1].status = RUNNING
                 /\ state'.steps[index + 1].modelUsed = Some(state.selectedModel)
                 /\ \A call \in BagToSet(pending') :
                       Dispatches(call) =>
                           /\ call.index = index
                           /\ call.modelId = state.selectedModel
       /\ SelectModel => (state'.steps = state.steps /\ pending' = pending)
       /\ \A i \in StepIndices :
             state'.steps[i + 1].modelUsed # state.steps[i + 1].modelUsed
                 => ExecuteStep(i)]_vars

\* C11: a step is RUNNING and its call is in flight to the model recorded
\* as modelUsed, and the operator has selected another model since
C11_Witness ==
    \E call \in BagToSet(pending) :
        /\ state.steps[call.index + 1].status = RUNNING
        /\ state.steps[call.index + 1].modelUsed = Some(call.modelId)
        /\ call.modelId # state.selectedModel

\* C12: the step that settles a provider call for step i changes, among
\* the steps, only the status, result, error and latency of step i: its
\* feedback (also one typed while the call was in flight) and its other
\* fields, and every other step, are as before
C12_ReconcileFrame ==
    [][\A call \in BagToSet(pending), ev \in UpstreamEvents :
          SettleCallWith(call, ev) =>
              /\ Len(state'.steps) = Len(state.steps)
              /\ \A i \in StepIndices :
                    i # call.index => state'.steps[i + 1] = state.steps[i + 1]
              /\ \A f \in DOMAIN Target(call) \ {"status", "result", "error", "latency"} :
                    TargetAfter(call)[f] = Target(call)[f]]_vars

\* the log has an entry with this message
Logged(message) ==
    \E k \in 1..Len(state.history) : state.history[k].message = message

\* C12: a step carries feedback that was never applied to a prompt, and is
\* in ERROR: the feedback was typed while the step was under review with
\* a call for it still in flight, and that call has since failed
C12_Witness ==
    /\ \E i \in StepIndices :
          /\ state.steps[i + 1].status = ERROR
          /\ Truthy(state.steps[i + 1].feedback)
    /\ ~Logged(<<"Applied user feedback to prompt">>)

\* C13: a step becomes COMPLETED only from PAUSED, currentStepIndex grows
\* only while the current step is PAUSED, and handleContinue applied while
\* the current step is not PAUSED changes no step and not the index
C13_CompletedOnlyFromPaused ==
    [][/\ \A i \in StepIndices :
             (state.steps[i + 1].status # COMPLETED
                  /\ state'.steps[i + 1].status = COMPLETED)
                 => state.steps[i + 1].status = PAUSED
       /\ state'.currentStepIndex > state.currentStepIndex
             => ActiveStatus(state) = PAUSED
       /\ (state' = HandleContinueState(state) /\ ActiveStatus(state) # PAUSED)
             => /\ state'.steps = state.steps
                /\ state'.currentStepIndex = state.currentStepIndex]_vars

\* C14: the approve action on the PAUSED current step leaves that step
\* COMPLETED and currentStepIndex greater by exactly one, at every
\* position of the current step, the last one included
C14_ApproveAdvancesByOne ==
    [][HandleContinue =>
          /\ state'.steps[state.currentStepIndex + 1].status = COMPLETED
          /\ state'.currentStepIndex = state.currentStepIndex + 1]_vars

\* the current step is a confirmed reset
ResetConfirmed == state' = HandleResetState(state, TRUE)

\* C15: a step that is COMPLETED is COMPLETED after every step of the
\* program that is not a confirmed reset
C15_CompletedIsTerminal ==
    [][\A i \in StepIndices :
          (state.steps[i + 1].status = COMPLETED /\ ~ResetConfirmed)
              => state'.steps[i + 1].status = COMPLETED]_vars

\* the status changes the claim lists
ListedTransitions ==
    { <<PENDING, RUNNING>>, <<RUNNING, PAUSED>>, <<RUNNING, ERROR>>,
      <<PAUSED, RUNNING>>, <<PAUSED, COMPLETED>>, <<ERROR, RUNNING>> }

\* C16: a step of the program that is not a confirmed reset changes the
\* status of a step only along one of the listed transitions
C16_OnlyListedTransitions ==
    [][\A i \in StepIndices :
          (state'.steps[i + 1].status # state.steps[i + 1].status /\ ~ResetConfirmed)
              => <<state.steps[i + 1].status, state'.steps[i + 1].status>>
                     \in ListedTransitions]_vars

\* C17: after a confirmed reset every step is PENDING without result,
\* error, latency and feedback, currentStepIndex is 0 and isProcessing is
\* false; the steps are as many, in the same order, with the same id,
\* title and prompt, and the selected model and granularity are as before
C17_ResetPostState ==
    [][ResetConfirmed =>
          /\ Len(state'.steps) = Len(state.steps)
          /\ \A i \in StepIndices :
                /\ state'.steps[i + 1].status = PENDING
                /\ ~IsDefined(state'.steps[i + 1].result)
                /\ ~IsDefined(state'.steps[i + 1].error)
                /\ ~IsDefined(state'.steps[i + 1].latency)
                /\ ~IsDefined(state'.steps[i + 1].feedback)
                /\ state'.steps[i + 1].id = state.steps[i + 1].id
                /\ state'.steps[i + 1].title = state.steps[i + 1].title
                /\ state'.steps[i + 1].prompt = state.steps[i + 1].prompt
          /\ state'.currentStepIndex = 0
          /\ ~state'.isProcessing
          /\ state'.selectedModel = state.selectedModel
          /\ state'.executionMode = state.executionMode]_vars

\* C17: the operator has just reset a workflow in which a step had been
\* approved and the next one re-run with feedback, with the call of that
\* re-run still in flight and another model and granularity selected
C17_Witness ==
    /\ state.history # <<>>
    /\ state.history[Len(state.history)].message = <<"Workflow reset initiated.">>
    /\ Logged(<<"Advanced to Step ", "2", ". Ready to execute.">>)
    /\ Logged(<<"Applied user feedback to prompt">>)
    /\ InFlight > 0
    /\ state.selectedModel # DefaultState.selectedModel
    /\ state.executionMode # DefaultState.executionMode
    /\ \A i \in StepIndices : state.steps[i + 1].status = PENDING

\* C18: every step of the program, a reset included, keeps the entries of
\* the log in their order and unmodified and adds its own at the end; the
\* d oldest entries are missing afterwards only if the log is then at its
\* cap of 500 entries
C18_HistoryAppendOnly ==
    [][\E d \in 0..Len(state.history) :
          /\ d > 0 => Len(state'.history) = HistoryCap
          /\ Len(state'.history) >= Len(state.history) - d
          /\ \A k \in 1..(Len(state.history) - d) :
                state'.history[k] = state.history[d + k]]_vars

\* C18: the operator has just reset a workflow whose log is full: the
\* reset's entry is the last one, the entries before it are those the log
\* held, and only the oldest entry of the restored log has been evicted
C18_Witness ==
    /\ Len(state.history) = HistoryCap
    /\ state.history[HistoryCap].message = <<"Workflow reset initiated.">>
    /\ state.history[1].message = <<"Log ", "2">>
    /\ state.history[HistoryCap - 3].message = <<"Log ", Num(HistoryCap - 2)>>

\* C19: in every reachable state, a confirmed reset performed twice in a
\* row gives the same workflow state as a confirmed reset performed once
C19_ResetIdempotent ==
    HandleResetState(HandleResetState(state, TRUE), TRUE)
        = HandleResetState(state, TRUE)

\* C20: after any number of addLog calls the log holds at most 500
\* entries: all of them while they are at most 500, and from then on
\* the entries of the last 500 calls, in the order of the calls
C20_HistoryCapped ==
    /\ Len(state.history) <= HistoryCap
    /\ Len(state.history) = MinOf(commands, HistoryCap)
    /\ \A k \in 1..Len(state.history) :
          state.history[k].message
              = <<"Log ", Num(commands - Len(state.history) + k - 1)>>

\* C20: addLog has been called more than 500 times: the log is full and
\* the entries of the first calls are gone
C20_Witness ==
    /\ commands > HistoryCap + 1
    /\ Len(state.history) = HistoryCap
    /\ state.history[1].message = <<"Log ", Num(commands - HistoryCap)>>
    /\ state.history[HistoryCap].message = <<"Log ", Num(commands - 1)>>

\* the line that opens the feedback block of a prompt
FeedbackHeading == "\n\nIMPORTANT USER FEEDBACK: "

\* the number of feedback blocks in a prompt
FeedbackBlocks(prompt) ==
    Cardinality({k \in 1..Len(prompt) : prompt[k] = FeedbackHeading})

\* the number of log entries with this message
TimesLogged(message) ==
    Cardinality({k \in 1..Len(state.history) : state.history[k].message = message})

\* C21: the prompt of a dispatched call is the step's template alone when
\* the step has no feedback, and the template, one feedback heading and
\* the sanitized feedback when it has; the template stored in the step is
\* the one of the workflow definition before and after every step of the
\* program, so a re-run with the same feedback sends the same prompt
C21_FinalPromptIsTemplatePlusOneBlock ==
    [][/\ \A i \in StepIndices :
             /\ state.steps[i + 1].prompt = INITIAL_STEPS[i + 1].prompt
             /\ state'.steps[i + 1].prompt = INITIAL_STEPS[i + 1].prompt
       /\ \A index \in StepIndices :
             ExecuteStep(index) =>
                 \A call \in BagToSet(pending') :
                     Dispatches(call) =>
                         LET template == INITIAL_STEPS[index + 1].prompt
                             feedback == state.steps[index + 1].feedback
                         IN  /\ SubSeq(call.prompt, 1, Len(template)) = template
                             /\ ~Truthy(feedback) => call.prompt = template
                             /\ Truthy(feedback) =>
                                   /\ FeedbackBlocks(call.prompt) = 1
                                   /\ call.prompt[Len(template) + 1] = FeedbackHeading
                                   /\ SubSeq(call.prompt, Len(template) + 2,
                                             Len(call.prompt))
                                         = SanitizeFeedback(feedback[1])]_vars

\* C21: a step has been re-run twice with the same feedback, and the call
\* of the second re-run is in flight with the template and one block
C21_Witness ==
    /\ TimesLogged(<<"Applied user feedback to prompt">>) = 2
    /\ \E call \in BagToSet(pending) :
          call.prompt = INITIAL_STEPS[call.index + 1].prompt
                            \o <<FeedbackHeading, "Be", " ", "brief">>

\* the feedback a dispatched prompt carries after its heading
SentFeedback(call) ==
    SubSeq(call.prompt, Len(INITIAL_STEPS[call.index + 1].prompt) + 2,
           Len(call.prompt))

\* the number of whitespace characters a text starts with
LeadingBlanks(t) ==
    IF \A k \in 1..Len(t) : IsWhitespace(t[k]) THEN Len(t)
    ELSE (CHOOSE k \in 1..Len(t) :
              ~IsWhitespace(t[k]) /\ \A j \in 1..(k - 1) : IsWhitespace(t[j])) - 1

\* C22: the sanitized feedback a run puts into its prompt has at most 2000
\* characters, and for a feedback longer than 2000 characters it has
\* exactly 2000 characters and neither starts nor ends with whitespace
C22_SanitizedExactAndTrimmed ==
    [][\A index \in StepIndices :
          (ExecuteStep(index) /\ Truthy(state.steps[index + 1].feedback)) =>
              \A call \in BagToSet(pending') :
                  Dispatches(call) =>
                      LET raw == state.steps[index + 1].feedback[1]
                          sent == SentFeedback(call)
                      IN  /\ Len(sent) <= FeedbackLimit
                          /\ Len(raw) > FeedbackLimit =>
                                /\ Len(sent) = FeedbackLimit
                                /\ ~IsWhitespace(sent[1])
                                /\ ~IsWhitespace(sent[Len(sent)])]_vars

\* C22, as the code has it: the sanitized feedback is the feedback from
\* its first character that is not whitespace on, cut after 2000
\* characters: it has at most 2000 characters and does not start with
\* whitespace; it has exactly 2000 characters when more than 2000 follow
\* the leading whitespace up to the last character that is not
\* whitespace; and it ends with whitespace only where the cut falls
\* behind a whitespace character
C22_SanitizedIsCutOfTrimmed ==
    [][\A index \in StepIndices :
          (ExecuteStep(index) /\ Truthy(state.steps[index + 1].feedback)) =>
              \A call \in BagToSet(pending') :
                  Dispatches(call) =>
                      LET raw == state.steps[index + 1].feedback[1]
                          sent == SentFeedback(call)
                          lead == LeadingBlanks(raw)
                          trail == LeadingBlanks([k \in 1..Len(raw) |->
                                                     raw[Len(raw) + 1 - k]])
                          inner == MaxOf(0, Len(raw) - lead - trail)
                      IN  /\ Len(sent) <= FeedbackLimit
                          /\ Len(sent) = MinOf(inner, FeedbackLimit)
                          /\ sent = SubSeq(raw, lead + 1, lead + Len(sent))
                          /\ sent # <<>> => ~IsWhitespace(sent[1])
                          /\ (sent # <<>> /\ IsWhitespace(sent[Len(sent)]))
                                => (Len(sent) = FeedbackLimit /\ inner > FeedbackLimit)]_vars

\* C22: a call is in flight whose prompt carries 2000 characters of a
\* longer feedback, the last of them a blank
C22_Witness ==
    \E call \in BagToSet(pending) :
        /\ Len(state.steps[call.index + 1].feedback[1]) > FeedbackLimit
        /\ Len(SentFeedback(call)) = FeedbackLimit
        /\ IsWhitespace(SentFeedback(call)[FeedbackLimit])

ValidSnapshot(saved) ==
    /\ saved.kind = "json"
    /\ saved.hasSteps
    /\ saved.isArray
    /\ \A i \in 1..Len(saved.steps) : saved.steps[i].status \in StepStatus
    /\ saved.selectedModel \in ModelId

\* C24: loadState yields the default state for every stored value that is
\* missing, unparsable or invalid, one whose selectedModel is not a known
\* model identifier included, so the selected model of a session is one
\* of ModelId
C24_LoadValidatesSnapshot ==
    /\ \A saved \in Snapshots : ~ValidSnapshot(saved) => LoadState(saved) = DefaultState
    /\ state.selectedModel \in ModelId

\* C25: the state loadState returns for what the persistence effect has
\* stored of the current state has the same steps in number, with the same
\* statuses and results, and the same currentStepIndex
C25_RoundTrip ==
    LET loaded == LoadState(SaveState(state))
    IN  /\ Len(loaded.steps) = Len(state.steps)
        /\ \A i \in 1..Len(state.steps) :
              /\ loaded.steps[i].status = state.steps[i].status
              /\ loaded.steps[i].result = state.steps[i].result
        /\ loaded.currentStepIndex = state.currentStepIndex

\* C25: the state saved has an approved step, a step under review past
\* the first one, and a failed run behind it
C25_Witness ==
    /\ state.steps[1].status = COMPLETED
    /\ state.steps[2].status = PAUSED
    /\ Truthy(state.steps[2].result)
    /\ IsDefined(state.steps[2].error)
    /\ state.currentStepIndex = 1
    /\ LoadState(SaveState(state)) # DefaultState

NonBlank(t) == Len(Trim(t)) > 0

\* C27: the promise of a provider call is fulfilled with a text that has a
\* character that is not whitespace, or rejected with a message that has
\* one; the remote provider rejects when the API throws, does not answer
\* or answers without such a text; and a step under review has a result
\* with a character that is not whitespace
C27_NoEmptySuccess ==
    [][/\ \A call \in BagToSet(pending), ev \in PayloadEvents :
             SettleCallWith(call, ev) =>
                 /\ NonBlank(OutcomeOf(call, ev).text)
                 /\ (/\ call.modelId = GEMINI_3
                     /\ (ev.kind # "text" \/ ~NonBlank(ev.text)))
                        => /\ ~OutcomeOf(call, ev).ok
                           /\ TargetAfter(call).status # PAUSED
       /\ \A i \in StepIndices :
             state'.steps[i + 1].status = PAUSED
                 => /\ IsDefined(state'.steps[i + 1].result)
                    /\ NonBlank(state'.steps[i + 1].result[1])]_vars

\* C27: the remote API answered the run of the first step with a text of
\* whitespace, and the step is in ERROR with the message of the provider
C27_Witness ==
    /\ state.steps[1].status = ERROR
    /\ state.steps[1].error
           = Some(<<"Gemini API Error: ", "Empty or invalid response from Gemini API">>)
    /\ ~state.isProcessing


\* C28: a call of the remote provider that fails is rejected with the
\* message of one of the four classes, and with the message of its own
\* class when the failure is a timeout, an authentication failure or a
\* rate-limit failure
C28_FailureReportedAsItsClass ==
    [][\A call \in BagToSet(pending), f \in Failures :
           (SettleCallWith(call, f.event) /\ apiKey) =>
               LET outcome == OutcomeOf(call, f.event)
               IN  /\ ~outcome.ok
                   /\ ReportedClass(outcome.text)
                          \in {"timeout", "authentication", "rate-limit", "generic"}
                   /\ f.cause # "generic" => ReportedClass(outcome.text) = f.cause]_vars


\* the message of a step whose request was not answered within the timeout
TimedOutMessage == GeminiClassify(TimeoutMessage(GeminiTimeoutMs))

\* C29: the completion of a provider call leaves its step PAUSED or ERROR,
\* and in ERROR with the message of the timeout when the remote API did
\* not answer; and, every completion and timer being delivered, a step
\* that is RUNNING is eventually PAUSED or ERROR
C29_RunTerminates ==
    /\ [][\A call \in BagToSet(pending), ev \in UpstreamEvents :
             SettleCallWith(call, ev) =>
                 /\ TargetAfter(call).status \in {PAUSED, ERROR}
                 /\ (ev = UpstreamHang /\ apiKey)
                        => /\ TargetAfter(call).status = ERROR
                           /\ TargetAfter(call).error = Some(TimedOutMessage)]_vars
    /\ \A i \in StepIndices :
          (state.steps[i + 1].status = RUNNING)
              ~> (state.steps[i + 1].status \in {PAUSED, ERROR})

\* C29: the remote API did not answer the run of a step, and the step is
\* in ERROR with the message of the timeout and nothing left in flight
C29_Witness ==
    /\ \E i \in StepIndices :
          /\ state.steps[i + 1].status = ERROR
          /\ state.steps[i + 1].error = Some(TimedOutMessage)
          /\ state.steps[i + 1].modelUsed = Some(GEMINI_3)
    /\ ~state.isProcessing
    /\ InFlight = 0


\* C30: a step of the program in which the operator picks a model leaves
\* every step of the workflow, currentStepIndex, isProcessing, history and
\* the granularity as they are, and the calls in flight as well
C30_SelectModelFrame ==
    [][SelectModel =>
           /\ state'.steps = state.steps
           /\ state'.currentStepIndex = state.currentStepIndex
           /\ state'.isProcessing = state.isProcessing
           /\ state'.history = state.history
           /\ state'.executionMode = state.executionMode
           /\ pending' = pending]_vars

\* C30: a model other than the one a step was run with is selected, and
\* the step keeps the model and the outcome of its run
C30_Witness ==
    /\ state.steps[1].status \in {PAUSED, ERROR}
    /\ IsDefined(state.steps[1].modelUsed)
    /\ state.steps[1].modelUsed # Some(state.selectedModel)
    /\ Truthy(state.steps[1].result) \/ Truthy(state.steps[1].error)


\* C31: the workflow has the steps of the workflow definition, as many and
\* in the same order, each with the id, the title and the prompt it was
\* created with
C31_StepsFixed ==
    /\ Len(state.steps) = Len(INITIAL_STEPS)
    /\ \A k \in 1..Len(INITIAL_STEPS) :
          /\ state.steps[k].id = INITIAL_STEPS[k].id
          /\ state.steps[k].title = INITIAL_STEPS[k].title
          /\ state.steps[k].prompt = INITIAL_STEPS[k].prompt

\* C31: the operator has run a step, approved it, re-run the next one with
\* feedback, picked another model and reset the workflow
C31_Witness ==
    /\ Logged(<<"Advanced to Step ", Num(2), ". Ready to execute.">>)
    /\ Logged(<<"Applied user feedback to prompt">>)
    /\ Logged(<<"Workflow reset initiated.">>)
    /\ state.selectedModel # GEMINI_3
    /\ state.currentStepIndex = 0


\* the current step takes the workflow back: currentStepIndex falls, a
\* step returns to PENDING, or a step loses its result, its error, its
\* latency or its feedback
TakenBack ==
    \/ state'.currentStepIndex < state.currentStepIndex
    \/ \E k \in 1..Len(state.steps) :
          \/ state.steps[k].status # PENDING /\ state'.steps[k].status = PENDING
          \/ \E f \in {"result", "error", "latency", "feedback"} :
                IsDefined(state.steps[k][f]) /\ ~IsDefined(state'.steps[k][f])

\* C32: handleReset with the confirmation declined returns the state it
\* was given, history included, and every step of the program that takes
\* the workflow back or logs a reset is a confirmed reset
C32_ResetOnlyWhenConfirmed ==
    [][/\ HandleResetState(state, FALSE) = state
       /\ (\/ TakenBack
           \/ TimesLogged(<<"Workflow reset initiated.">>)'
                  > TimesLogged(<<"Workflow reset initiated.">>))
              => ResetConfirmed]_vars

\* C32: a reset would take the workflow back from the second step and
\* clear a result under review, and declined it leaves all of it in place
C32_Witness ==
    /\ state.currentStepIndex = 1
    /\ state.steps[1].status = COMPLETED
    /\ state.steps[2].status = PAUSED
    /\ Truthy(state.steps[2].result)
    /\ HandleResetState(state, TRUE) # state
    /\ HandleResetState(state, FALSE) = state


\* the message of the entry that opens a run of the step at index
StartMessage(index) ==
    <<"Starting Step ", Num(index + 1), ": ">> \o INITIAL_STEPS[index + 1].title

\* the log entries that report the outcome of a run of the step at index
IsOutcomeEntry(entry, index) ==
    \/ /\ entry.level = "success"
       /\ SliceHead(entry.message, 3)
              = <<"Step ", Num(index + 1), " execution successful. Latency: ">>
    \/ /\ entry.level = "error"
       /\ SliceHead(entry.message, 3) = <<"Error in Step ", Num(index + 1), ": ">>

\* the numbers of opening entries and of outcome entries for the step at
\* index in a log, and of calls in flight for it
StartsIn(history, index) ==
    Cardinality({k \in 1..Len(history) : history[k].message = StartMessage(index)})
OutcomesIn(history, index) ==
    Cardinality({k \in 1..Len(history) : IsOutcomeEntry(history[k], index)})
CallsFor(calls, index) ==
    BagCardinality([call \in {c \in BagToSet(calls) : c.index = index}
                       |-> CopiesIn(call, calls)])

\* C33: a run appends the opening entry of its step, at level info, and
\* after it info entries only; the completion of a call appends one entry,
\* a success entry when it leaves the step PAUSED and an error entry with
\* details when it leaves it ERROR, and the opening entry of the step is
\* in the log by then; so the outcome entries of a step are as many as its
\* opening entries less the calls still in flight for it
C33_OneOutcomeEntryPerRun ==
    [][/\ \A index \in StepIndices :
             ExecuteStep(index) =>
                 /\ Len(state'.history) > Len(state.history)
                 /\ state'.history[Len(state.history) + 1]
                        = LogEntry(StartMessage(index), "info", Undefined)
                 /\ \A k \in (Len(state.history) + 1)..Len(state'.history) :
                       state'.history[k].level = "info"
       /\ \A call \in BagToSet(pending), ev \in UpstreamEvents :
             SettleCallWith(call, ev) =>
                 LET entry == state'.history[Len(state'.history)]
                 IN  /\ state'.history = Append(state.history, entry)
                     /\ IsOutcomeEntry(entry, call.index)
                     /\ entry.level = "success" <=> TargetAfter(call).status = PAUSED
                     /\ entry.level = "error"
                            <=> (TargetAfter(call).status = ERROR /\ IsDefined(entry.details))
                     /\ StartsIn(state.history, call.index) > 0
       /\ \A index \in StepIndices :
             OutcomesIn(state'.history, index) + CallsFor(pending', index)
                 = StartsIn(state'.history, index)]_vars

\* C33: the first step was run twice, one run succeeded and one failed,
\* nothing is in flight, and the log has two opening entries and two
\* outcome entries for it
C33_Witness ==
    /\ InFlight = 0
    /\ StartsIn(state.history, 0) = 2
    /\ OutcomesIn(state.history, 0) = 2
    /\ \E k \in 1..Len(state.history) :
          IsOutcomeEntry(state.history[k], 0) /\ state.history[k].level = "success"
    /\ \E k \in 1..Len(state.history) :
          IsOutcomeEntry(state.history[k], 0) /\ state.history[k].level = "error"


\* C34: the completion of a call whose step a reset has returned to
\* PENDING leaves the status, the result, the error and the latency of
\* every step as they are
C34_ResetIsFinal ==
    [][\A call \in BagToSet(pending), ev \in UpstreamEvents :
           (SettleCallWith(call, ev) /\ Target(call).status = PENDING) =>
               \A k \in 1..Len(state.steps) :
                   /\ state'.steps[k].status = state.steps[k].status
                   /\ state'.steps[k].result = state.steps[k].result
                   /\ state'.steps[k].error = state.steps[k].error
                   /\ state'.steps[k].latency = state.steps[k].latency]_vars


\* C35: a step that is RUNNING has a call in flight for it, and a call is
\* in flight whenever isProcessing is true
C35_RunningHasCallInFlight ==
    /\ \A index \in StepIndices :
          state.steps[index + 1].status = RUNNING => CallsFor(pending, index) > 0
    /\ state.isProcessing => InFlight > 0


\* C36: every step before the current one is COMPLETED
C36_EarlierStepsCompleted ==
    \A index \in StepIndices :
        index < state.currentStepIndex => state.steps[index + 1].status = COMPLETED

\* C37: every step after the current one is PENDING and has no result
C37_LaterStepsPending ==
    \A index \in StepIndices :
        index > state.currentStepIndex
            => /\ state.steps[index + 1].status = PENDING
               /\ ~IsDefined(state.steps[index + 1].result)


\* C38: a step that is PAUSED or COMPLETED has a result that is not empty,
\* and a step that is in ERROR has an error message that is not empty
C38_OutcomeRecorded ==
    \A k \in 1..Len(state.steps) :
        /\ state.steps[k].status \in {PAUSED, COMPLETED} => Truthy(state.steps[k].result)
        /\ state.steps[k].status = ERROR => Truthy(state.steps[k].error)

\* C38: the first step is approved with its result, the second has been
\* run twice and is in ERROR with a message, keeping the result of the
\* run that succeeded
C38_Witness ==
    /\ state.steps[1].status = COMPLETED
    /\ Truthy(state.steps[1].result)
    /\ state.steps[2].status = ERROR
    /\ Truthy(state.steps[2].error)
    /\ Truthy(state.steps[2].result)


\* the message of the Error getProvider throws
IsNotFoundMessage(message) == SliceHead(message, 1) = <<"Model provider ">>

\* C39: getProvider finds for every member of ModelId a provider that has
\* this id; the selected model and the model of every call in flight are
\* members of ModelId; and no step carries the error of a provider that
\* was not found
C39_EveryModelHasProvider ==
    /\ \A id \in ModelId :
          IsDefined(GetProvider(id)) /\ GetProvider(id)[1].id = id
    /\ state.selectedModel \in ModelId
    /\ \A call \in BagToSet(pending) : call.modelId \in ModelId
    /\ \A k \in 1..Len(state.steps) :
          IsDefined(state.steps[k].error) => ~IsNotFoundMessage(state.steps[k].error[1])

\* C39: steps have been run with the models other than the default one,
\* and each run has ended with a result or with an error of its provider
C39_Witness ==
    /\ state.steps[1].modelUsed = Some(HF_TRANSFORMERS)
    /\ state.steps[1].status = COMPLETED
    /\ state.steps[2].modelUsed = Some(CLAUDE_3)
    /\ state.steps[2].status = COMPLETED
    /\ state.steps[3].modelUsed = Some(LLAMA_3)
    /\ state.steps[3].status = PAUSED

====
